---- MODULE Spec2Model ----
(***************************************************************************)
(* A model of prinTE/bin/TE_exciser_parallel.py: the classifier, the       *)
(* weighted sampler, the excision / rewrite engine, the fail-safe          *)
(* consolidation pass and the per-chromosome scheduler.                    *)
(*                                                                         *)
(* Strings that the code inspects (NAME, feature_ID, supplemental          *)
(* attributes) are sequences of one-character strings, so that split,      *)
(* startswith, "in" and the LTRlen regular expression are computed as the  *)
(* code computes them.  Python objects are identified by their position    *)
(* in the heap of entries.                                                 *)
(***************************************************************************)
EXTENDS Integers, Sequences, FiniteSets, TLC

\* ------------------------------------------------------------------------
\* Python values and string helpers
\* ------------------------------------------------------------------------

\* Python's None (for tag and subtype); group None is 0.
None == "<None>"

Min2(a, b) == IF a <= b THEN a ELSE b

Max2(a, b) == IF a >= b THEN a ELSE b

\* s.startswith(p)
StartsWith(s, p) == Len(p) <= Len(s) /\ SubSeq(s, 1, Len(p)) = p

\* p in s  (substring test)
Contains(s, p) == \E k \in 0..(Len(s) - Len(p)) : SubSeq(s, k + 1, k + Len(p)) = p

\* position (1-based) of the first occurrence of p in s, 0 when absent
FirstIndex(s, p) ==
    IF Contains(s, p)
    THEN CHOOSE k \in 1..(Len(s) - Len(p) + 1) :
            /\ SubSeq(s, k, k + Len(p) - 1) = p
            /\ \A j \in 1..(k - 1) : SubSeq(s, j, j + Len(p) - 1) # p
    ELSE 0

\* s.split(c) for a one-character separator c
RECURSIVE Split(_, _)
Split(s, c) ==
    IF \A k \in 1..Len(s) : s[k] # c
    THEN <<s>>
    ELSE LET k == CHOOSE j \in 1..Len(s) : s[j] = c /\ \A h \in 1..(j - 1) : s[h] # c
         IN  <<SubSeq(s, 1, k - 1)>> \o Split(SubSeq(s, k + 1, Len(s)), c)

\* c.join(parts)
RECURSIVE Join(_, _)
Join(parts, c) ==
    IF Len(parts) = 0 THEN <<>>
    ELSE IF Len(parts) = 1 THEN parts[1]
    ELSE parts[1] \o <<c>> \o Join(Tail(parts), c)

Digits == {"0", "1", "2", "3", "4", "5", "6", "7", "8", "9"}

DigitVal(d) ==
    CASE d = "0" -> 0 [] d = "1" -> 1 [] d = "2" -> 2 [] d = "3" -> 3 [] d = "4" -> 4
      [] d = "5" -> 5 [] d = "6" -> 6 [] d = "7" -> 7 [] d = "8" -> 8 [] d = "9" -> 9

\* int() of the longest run of digits at the head of s, given the value so far
RECURSIVE DigitRun(_, _)
DigitRun(s, acc) ==
    IF Len(s) = 0 \/ Head(s) \notin Digits THEN acc
    ELSE DigitRun(Tail(s), 10 * acc + DigitVal(Head(s)))

GENE == <<"g", "e", "n", "e">>

LTRLEN == <<"L", "T", "R", "l", "e", "n">>

LTRLEN_COLON == <<"L", "T", "R", "l", "e", "n", ":">>

SOLO == <<"_", "S", "O", "L", "O">>

FRAG == <<"_", "F", "R", "A", "G">>

NESTED_IN == <<"N", "E", "S", "T", "E", "D", "_", "I", "N", ":">>

CUT_BY == <<"C", "U", "T", "_", "B", "Y">>

\* re.search(r"LTRlen:(\d+)", s): the positions where the pattern matches
LtrMatches(s) ==
    {k \in 1..Len(s) :
        /\ k + Len(LTRLEN_COLON) <= Len(s)
        /\ SubSeq(s, k, k + Len(LTRLEN_COLON) - 1) = LTRLEN_COLON
        /\ s[k + Len(LTRLEN_COLON)] \in Digits}

\* int(m.group(1)) of the leftmost match; -1 when there is no match
LtrVal(s) ==
    IF LtrMatches(s) = {} THEN -1
    ELSE LET k == CHOOSE j \in LtrMatches(s) : \A h \in LtrMatches(s) : j <= h
         IN  DigitRun(SubSeq(s, k + Len(LTRLEN_COLON), Len(s)), 0)

\* ------------------------------------------------------------------------
\* BedEntry
\* ------------------------------------------------------------------------

\* BedEntry.__init__
BedEntry(chrom, start, end, name, strand, tsd, lineno, tag) ==
    [chrom |-> chrom, start |-> start, end |-> end, name |-> name,
     strand |-> strand, tsd |-> tsd, lineno |-> lineno, tag |-> tag,
     group |-> 0, subtype |-> None,
     feature_id |-> Split(name, ";")[1],
     supp |-> IF Contains(name, <<";">>) THEN Tail(Split(name, ";")) ELSE <<>>]

\* BedEntry.length
Length(e) == e.end - e.start

\* a slip: the "NA" sentinel counted as a TSD of two bases
TsdLenOfSentinel(e) == Len(e.tsd)

\* len(e.tsd) if e.tsd != "NA" else 0
TsdLen(e) == IF e.tsd = "NA" THEN 0 ELSE Len(e.tsd)

IsGeneId(fid) == StartsWith(fid, GENE)

\* ------------------------------------------------------------------------
\* classify_entries
\* ------------------------------------------------------------------------

\* the three members of a group get their subtype and group id
MarkGroup(es, i, gid) ==
    LET gene == IsGeneId(es[i].feature_id)
    IN  [k \in 1..Len(es) |->
            IF k = i THEN [es[k] EXCEPT !.group = gid,
                              !.subtype = IF gene THEN "CUT_PAIR_GENE_1" ELSE "CUT_PAIR_TE_1"]
            ELSE IF k = i + 1 THEN [es[k] EXCEPT !.group = gid,
                              !.subtype = IF gene THEN "NEST_TE_IN_GENE" ELSE "NEST_TE_IN_TE"]
            ELSE IF k = i + 2 THEN [es[k] EXCEPT !.group = gid,
                              !.subtype = IF gene THEN "CUT_PAIR_GENE_2" ELSE "CUT_PAIR_TE_2"]
            ELSE es[k]]

\* used[ent.lineno] = True for the three members: the list is indexed by the
\* file line number of the record, not by its position
UsedIndex(es, k) == es[k].lineno

\* the test that makes position i (0-based) the middle of a nest group
IsMiddle(es, used, i) ==
    /\ i > 0 /\ i < Len(es) - 1
    /\ ~used[i - 1] /\ ~used[i] /\ ~used[i + 1]
    /\ Len(es[i + 1].supp) > 0
    /\ StartsWith(es[i + 1].supp[1], NESTED_IN)
    /\ es[i].feature_id = es[i + 2].feature_id
    /\ es[i].strand = es[i + 2].strand
    /\ es[i].tsd = es[i + 2].tsd

\* the while loop of classify_entries; st = [i, es, used, groups, error]
RECURSIVE ClassifyLoop(_)
ClassifyLoop(st) ==
    IF st.error \/ st.i >= Len(st.es) THEN st
    ELSE IF IsMiddle(st.es, st.used, st.i)
    THEN LET gid  == Len(st.groups) + 1
             idx  == {UsedIndex(st.es, st.i), UsedIndex(st.es, st.i + 1),
                      UsedIndex(st.es, st.i + 2)}
         IN  IF \E u \in idx : u < -Len(st.es) \/ u >= Len(st.es)
             THEN [st EXCEPT !.error = TRUE]
             ELSE ClassifyLoop([i      |-> st.i + 2,
                                es     |-> MarkGroup(st.es, st.i, gid),
                                used   |-> [u \in 0..(Len(st.es) - 1) |->
                                              st.used[u] \/ u \in idx
                                                         \/ (u - Len(st.es)) \in idx],
                                groups |-> Append(st.groups, <<st.i, st.i + 1, st.i + 2>>),
                                error  |-> FALSE])
    ELSE ClassifyLoop([st EXCEPT !.i = st.i + 1])

\* the default subtypes of the entries that are in no group
DefaultSubtype(e) ==
    IF e.subtype # None THEN e
    ELSE IF IsGeneId(e.feature_id) THEN [e EXCEPT !.subtype = "NON_NEST_GROUP_GENES"]
    ELSE [e EXCEPT !.subtype = "NON_NEST_GROUP_TE"]

\* classify_entries: [es, groups, error]; a group is a triple of 1-based positions
ClassifyEntries(es) ==
    LET r == ClassifyLoop([i |-> 0, es |-> es, used |-> [u \in 0..(Len(es) - 1) |-> FALSE],
                           groups |-> <<>>, error |-> FALSE])
    IN  [es     |-> [k \in 1..Len(es) |-> DefaultSubtype(r.es[k])],
         groups |-> r.groups,
         error  |-> r.error]

\* ------------------------------------------------------------------------
\* select_removals
\* ------------------------------------------------------------------------

\* Entries live in a heap h (a sequence of BedEntry records); a list of
\* entries is a sequence of heap positions, which stand for object identity.

EligibleSubtypes ==
    {"NON_NEST_GROUP_TE", "CUT_PAIR_TE_1", "CUT_PAIR_TE_2", "NEST_TE_IN_TE", "NEST_TE_IN_GENE"}

IsEligible(e) == e.subtype \in EligibleSubtypes

\* the eligible candidate list, in list order
RECURSIVE EligibleList(_, _)
EligibleList(h, entries) ==
    IF Len(entries) = 0 THEN <<>>
    ELSE (IF IsEligible(h[Head(entries)]) THEN <<Head(entries)>> ELSE <<>>)
         \o EligibleList(h, Tail(entries))

\* [e for e in eligible if keep(e)]
RECURSIVE Filter(_, _)
Filter(seq, keep) ==
    IF Len(seq) = 0 THEN <<>>
    ELSE (IF Head(seq) \in keep THEN <<Head(seq)>> ELSE <<>>) \o Filter(Tail(seq), keep)

Range(seq) == {seq[k] : k \in 1..Len(seq)}

\* sum(f[c] for c in S)
RECURSIVE SumOver(_, _)
SumOver(f, S) ==
    IF S = {} THEN 0
    ELSE LET c == CHOOSE x \in S : TRUE
         IN  f[c] + SumOver(f, S \ {c})

\* stable insertion of x into a sorted list of numbers
RECURSIVE InsertNum(_, _)
InsertNum(x, sorted) ==
    IF Len(sorted) = 0 THEN <<x>>
    ELSE IF sorted[Len(sorted)] <= x THEN Append(sorted, x)
    ELSE Append(InsertNum(x, SubSeq(sorted, 1, Len(sorted) - 1)), sorted[Len(sorted)])

RECURSIVE SortNums(_)
SortNums(seq) ==
    IF Len(seq) = 0 THEN <<>>
    ELSE InsertNum(seq[Len(seq)], SortNums(SubSeq(seq, 1, Len(seq) - 1)))

\* 20 * numpy.percentile(lengths, 95): linear interpolation at the virtual
\* index 0.95 * (n - 1) of the sorted lengths, kept exact as a multiple of 1/20
L95x20(lengths) ==
    LET a   == SortNums(lengths)
        n   == Len(a)
        lo  == (19 * (n - 1)) \div 20
        rem == (19 * (n - 1)) % 20
    IN  IF rem = 0 THEN 20 * a[lo + 1]
        ELSE 20 * a[lo + 1] + rem * (a[lo + 2] - a[lo + 1])

\* gene_weights.get(gene_id, 1)
GeneWeight(gw, gene_id) == IF gene_id \in DOMAIN gw THEN gw[gene_id] ELSE 1

\* ------------------------------------------------------------------------
\* build_euchromatin_intervals
\* ------------------------------------------------------------------------

\* intervals_by_chrom[c]: (max(0, start - buffer), end + buffer) of the gene
\* entries of chromosome c, in the order of the entries
RECURSIVE IntervalsOfChrom(_, _, _, _)
IntervalsOfChrom(h, entries, buffer, c) ==
    IF Len(entries) = 0 THEN <<>>
    ELSE LET e    == h[Head(entries)]
             rest == IntervalsOfChrom(h, Tail(entries), buffer, c)
         IN  IF IsGeneId(e.feature_id) /\ e.chrom = c
             THEN <<<<Max2(0, e.start - buffer), e.end + buffer>>>> \o rest
             ELSE rest

\* ivals.sort(key=lambda x: x[0]): stable
RECURSIVE InsertIval(_, _)
InsertIval(iv, sorted) ==
    IF Len(sorted) = 0 THEN <<iv>>
    ELSE IF sorted[Len(sorted)][1] <= iv[1] THEN Append(sorted, iv)
    ELSE Append(InsertIval(iv, SubSeq(sorted, 1, Len(sorted) - 1)), sorted[Len(sorted)])

RECURSIVE SortIvals(_)
SortIvals(ivals) ==
    IF Len(ivals) = 0 THEN <<>>
    ELSE InsertIval(ivals[Len(ivals)], SortIvals(SubSeq(ivals, 1, Len(ivals) - 1)))

\* a slip: the current interval takes the end of the interval it absorbs
MergeStepTakingEnd(st, iv) ==
    IF iv[1] <= st.ce
    THEN [st EXCEPT !.ce = iv[2]]
    ELSE [merged_list |-> Append(st.merged_list, <<st.cs, st.ce>>), cs |-> iv[1], ce |-> iv[2]]

\* one turn of the loop `for s, e in ivals[1:]`; st = [merged_list, cs, ce]
MergeStep(st, iv) ==
    IF iv[1] <= st.ce
    THEN [st EXCEPT !.ce = Max2(st.ce, iv[2])]
    ELSE [merged_list |-> Append(st.merged_list, <<st.cs, st.ce>>), cs |-> iv[1], ce |-> iv[2]]

RECURSIVE MergeLoop(_, _, _)
MergeLoop(st, ivals, k) ==
    IF k > Len(ivals) THEN st ELSE MergeLoop(MergeStep(st, ivals[k]), ivals, k + 1)

\* merged[chrom] of a non-empty list of intervals
MergedList(ivals) ==
    LET sorted == SortIvals(ivals)
        st     == MergeLoop([merged_list |-> <<>>, cs |-> sorted[1][1], ce |-> sorted[1][2]],
                            sorted, 2)
    IN  Append(st.merged_list, <<st.cs, st.ce>>)

\* build_euchromatin_intervals(entries, buffer)
BuildEuchromatinIntervals(h, entries, buffer) ==
    [c \in {h[x].chrom : x \in {y \in Range(entries) : IsGeneId(h[y].feature_id)}} |->
        MergedList(IntervalsOfChrom(h, entries, buffer, c))]

\* the chromatin test of one candidate; euch = [given, ivals] where ivals maps
\* a chromosome to its list of <<start, end>>
EuchHit(e, euch) ==
    /\ euch.given
    /\ e.chrom \in DOMAIN euch.ivals
    /\ \E k \in 1..Len(euch.ivals[e.chrom]) :
          /\ euch.ivals[e.chrom][k][1] <= (e.start + e.end) \div 2
          /\ (e.start + e.end) \div 2 <= euch.ivals[e.chrom][k][2]

\* the factor applied to a gene-disrupting candidate (1 for the others)
SelMultiplier(e, h, nest_groups, gw, generations, sel_coeff) ==
    IF e.subtype = "NEST_TE_IN_GENE" /\ e.group # 0 /\ e.group \in DOMAIN nest_groups
    THEN 1 + sel_coeff * GeneWeight(gw, h[nest_groups[e.group][1]].feature_id) * generations
    ELSE 1

\* The sampling weight of candidate e, kept as its factors: the weight is
\*   exp(-k * (1 - leff20 / l95x20)) * (euch_het_bias if euch else 1) * mult
CandidateWeight(e, l95, h, nest_groups, gw, generations, sel_coeff, euch) ==
    [leff20 |-> Min2(20 * Length(e), l95),
     l95x20 |-> l95,
     euch   |-> EuchHit(e, euch),
     mult   |-> SelMultiplier(e, h, nest_groups, gw, generations, sel_coeff)]

\* the weights dictionary of select_removals
Weights(h, entries, nest_groups, gw, generations, sel_coeff, euch) ==
    LET el  == EligibleList(h, entries)
        l95 == L95x20([k \in 1..Len(el) |-> Length(h[el[k]])])
    IN  [x \in Range(el) |->
            CandidateWeight(h[x], l95, h, nest_groups, gw, generations, sel_coeff, euch)]

\* subtype.startswith("CUT_PAIR_TE"), over the subtypes the code assigns
SubtypeIsCutPairTe(sub) == sub \in {"CUT_PAIR_TE_1", "CUT_PAIR_TE_2"}

\* a slip: every nest group handled as a gene nest group
IsTeGroupNever(h, nest_groups, gid) == FALSE

\* is_te_group of the chosen entry
IsTeGroup(h, nest_groups, gid) ==
    /\ gid \in DOMAIN nest_groups
    /\ SubtypeIsCutPairTe(h[nest_groups[gid][1]].subtype)

\* a slip: the chosen entry stays in the eligible list
DropNothing(h, nest_groups, eligible, chosen) == Range(eligible)

\* what one draw removes from the eligible list
DropAfterChoice(h, nest_groups, eligible, chosen) ==
    IF h[chosen].group # 0 /\ ~IsTeGroup(h, nest_groups, h[chosen].group)
    THEN {x \in Range(eligible) : h[x].group # h[chosen].group}
    ELSE Range(eligible) \ {chosen}

\* one iteration of the sampling loop with the draw landing on `chosen`;
\* st = [eligible, removals, group_removed]
SelectIteration(h, nest_groups, st, chosen) ==
    IF h[chosen].group # 0 /\ ~IsTeGroup(h, nest_groups, h[chosen].group)
       /\ h[chosen].group \in st.group_removed
    THEN [st EXCEPT !.eligible = Filter(st.eligible, Range(st.eligible) \ {chosen})]
    ELSE [eligible      |-> Filter(st.eligible,
                                   DropAfterChoice(h, nest_groups, st.eligible, chosen)),
          removals      |-> st.removals \cup {chosen},
          group_removed |-> IF h[chosen].group # 0
                               /\ ~IsTeGroup(h, nest_groups, h[chosen].group)
                            THEN st.group_removed \cup {h[chosen].group}
                            ELSE st.group_removed]

\* a slip: the loop does not test whether candidates remain
LoopGuardOnCountOnly(st, num_excision) == Cardinality(st.removals) < num_excision

\* while len(removals) < num_excision and eligible
LoopGuard(st, num_excision) == Cardinality(st.removals) < num_excision /\ Len(st.eligible) > 0

\* ------------------------------------------------------------------------
\* simulate_excision
\* ------------------------------------------------------------------------

\* the line distance within which a look-alike entry disqualifies a candidate
NearbyLines == 100

Abs(x) == IF x < 0 THEN -x ELSE x

\* a slip: qualifies_as_intact_ltr without the CUT_BY test
QualifiesIgnoringCutBy(h, entries, x) ==
    Len(h[x].supp) > 0 =>
        \A k \in 1..Len(entries) :
            LET o == entries[k]
            IN  o # x /\ Abs(h[o].lineno - h[x].lineno) <= NearbyLines
                  /\ h[o].tsd = h[x].tsd /\ h[o].strand = h[x].strand
                => ~(StartsWith(h[x].name, h[o].name) \/ StartsWith(h[o].name, h[x].name))

\* qualifies_as_intact_ltr(e, all_entries)
QualifiesAsIntactLtr(h, entries, x) ==
    /\ ~(Len(h[x].supp) > 0 /\ Contains(h[x].supp[1], CUT_BY))
    /\ Len(h[x].supp) > 0 =>
         \A k \in 1..Len(entries) :
            LET o == entries[k]
            IN  o # x /\ Abs(h[o].lineno - h[x].lineno) <= NearbyLines
                  /\ h[o].tsd = h[x].tsd /\ h[o].strand = h[x].strand
                => ~(StartsWith(h[x].name, h[o].name) \/ StartsWith(h[o].name, h[x].name))

\* the removals for which the code draws random.random(): the candidates
\* for a partial excision
PartialCandidates(h, entries, removals) ==
    {x \in removals :
        /\ h[x].subtype \in {"NEST_TE_IN_TE", "NON_NEST_GROUP_TE"}
        /\ Contains(h[x].feature_id, LTRLEN)
        /\ ~Contains(h[x].feature_id, SOLO)
        /\ ~Contains(h[x].feature_id, FRAG)
        /\ QualifiesAsIntactLtr(h, entries, x)
        /\ LtrVal(h[x].feature_id) >= 0}

\* the subsets of the candidates that random.random() < soloLTR_freq / 100
\* can select: none at 0, all at 100 and above, any in between
PartialOutcomes(cands, soloLTR_freq) ==
    IF soloLTR_freq <= 0 THEN {{}}
    ELSE IF soloLTR_freq >= 100 THEN {cands}
    ELSE SUBSET cands

\* partial_info for a set of entries drawn for partial excision
PartialInfo(h, drawn) == [x \in drawn |-> LtrVal(h[x].feature_id)]

\* nest_middle_removed
NestMiddleRemoved(h, removals, partial_info) ==
    {h[x].group : x \in {y \in removals :
                            /\ h[y].subtype \in {"NEST_TE_IN_TE", "NEST_TE_IN_GENE"}
                            /\ y \notin DOMAIN partial_info}}

\* a slip: can_consolidate without the tag test
CanConsolidateIgnoringTags(h, nest_groups, gid, removals, partial_info) ==
    /\ gid \in NestMiddleRemoved(h, removals, partial_info)
    /\ (~SubtypeIsCutPairTe(h[nest_groups[gid][1]].subtype)
        \/ (nest_groups[gid][1] \notin removals /\ nest_groups[gid][3] \notin removals))

\* can_consolidate of one nest group
CanConsolidate(h, nest_groups, gid, removals, partial_info) ==
    /\ gid \in NestMiddleRemoved(h, removals, partial_info)
    /\ (~SubtypeIsCutPairTe(h[nest_groups[gid][1]].subtype)
        \/ (nest_groups[gid][1] \notin removals /\ nest_groups[gid][3] \notin removals))
    /\ h[nest_groups[gid][1]].tag = h[nest_groups[gid][3]].tag

\* removals_by_chrom[chrom].append(ev)
AddEvent(events, chrom, ev) == [events EXCEPT ![chrom] = Append(@, ev)]

\* a slip: the partial excision forgets the supplemental attributes in the name
ProcessEntryDroppingSupp(sim, x, removals, partial_info) ==
    LET e == sim.h[x]
    IN  IF x \in removals
        THEN IF x \in DOMAIN partial_info
             THEN LET ltr_val == partial_info[x]
                      rem_len == e.end - (e.start + ltr_val)
                      new_fid == e.feature_id \o SOLO
                  IN  [h |-> [sim.h EXCEPT ![x] = [e EXCEPT !.end = e.start + ltr_val,
                                                            !.feature_id = new_fid,
                                                            !.name = new_fid]],
                       new_entries |-> Append(sim.new_entries, x),
                       events |-> AddEvent(sim.events, e.chrom,
                                           <<e.start + ltr_val, e.end, rem_len>>)]
             ELSE [sim EXCEPT !.events = AddEvent(sim.events, e.chrom,
                                                  <<e.start, e.end - TsdLen(e),
                                                    Length(e) - TsdLen(e)>>)]
        ELSE [sim EXCEPT !.new_entries = Append(sim.new_entries, x)]

\* the full / partial / keep rule applied to one entry x;
\* sim = [h, new_entries, events]
ProcessEntry(sim, x, removals, partial_info) ==
    LET e == sim.h[x]
    IN  IF x \in removals
        THEN IF x \in DOMAIN partial_info
             THEN LET ltr_val == partial_info[x]
                      rem_len == e.end - (e.start + ltr_val)
                      new_fid == e.feature_id \o SOLO
                      new_name == IF Len(e.supp) > 0
                                  THEN new_fid \o <<";">> \o Join(e.supp, ";")
                                  ELSE new_fid
                  IN  [h |-> [sim.h EXCEPT ![x] = [e EXCEPT !.end = e.start + ltr_val,
                                                            !.feature_id = new_fid,
                                                            !.name = new_name]],
                       new_entries |-> Append(sim.new_entries, x),
                       events |-> AddEvent(sim.events, e.chrom,
                                           <<e.start + ltr_val, e.end, rem_len>>)]
             ELSE LET tsd_len == TsdLen(e)
                      rem_len == Length(e) - tsd_len
                  IN  [sim EXCEPT !.events = AddEvent(sim.events, e.chrom,
                                                      <<e.start, e.end - tsd_len, rem_len>>)]
        ELSE [sim EXCEPT !.new_entries = Append(sim.new_entries, x)]

\* the consolidated replacement of a nest group
ConsolidatedEntry(h, grp) ==
    [BedEntry(h[grp[2]].chrom, h[grp[1]].start, h[grp[3]].end - Length(h[grp[2]]),
              h[grp[1]].feature_id, h[grp[1]].strand, h[grp[1]].tsd, -1, h[grp[1]].tag)
     EXCEPT !.subtype = "CONSOLIDATED_NEST"]

\* the body of the loop over nest groups for one group
ProcessGroup(sim, nest_groups, gid, removals, partial_info) ==
    LET grp == nest_groups[gid]
    IN  IF CanConsolidate(sim.h, nest_groups, gid, removals, partial_info)
        THEN [h |-> Append(sim.h, ConsolidatedEntry(sim.h, grp)),
              new_entries |-> Append(sim.new_entries, Len(sim.h) + 1),
              events |-> AddEvent(sim.events, sim.h[grp[2]].chrom,
                                  <<sim.h[grp[2]].start, sim.h[grp[2]].end,
                                    Length(sim.h[grp[2]])>>)]
        ELSE ProcessEntry(ProcessEntry(ProcessEntry(sim, grp[1], removals, partial_info),
                                       grp[2], removals, partial_info),
                          grp[3], removals, partial_info)

\* for gid, group in nest_groups.items(): in insertion order, which is
\* increasing group id
RECURSIVE ProcessGroups(_, _, _, _, _)
ProcessGroups(sim, nest_groups, todo, removals, partial_info) ==
    IF todo = {} THEN sim
    ELSE LET gid == CHOOSE g \in todo : \A g2 \in todo : g <= g2
         IN  ProcessGroups(ProcessGroup(sim, nest_groups, gid, removals, partial_info),
                           nest_groups, todo \ {gid}, removals, partial_info)

\* for e in entries: if e.group is None: ...
RECURSIVE ProcessUngrouped(_, _, _, _)
ProcessUngrouped(sim, entries, removals, partial_info) ==
    IF Len(entries) = 0 THEN sim
    ELSE ProcessUngrouped(IF sim.h[Head(entries)].group = 0
                          THEN ProcessEntry(sim, Head(entries), removals, partial_info)
                          ELSE sim,
                          Tail(entries), removals, partial_info)

\* sorted(events, key=lambda x: x[0]): a stable sort by start
RECURSIVE InsertEvent(_, _)
InsertEvent(ev, sorted) ==
    IF Len(sorted) = 0 THEN <<ev>>
    ELSE IF sorted[Len(sorted)][1] <= ev[1] THEN Append(sorted, ev)
    ELSE Append(InsertEvent(ev, SubSeq(sorted, 1, Len(sorted) - 1)), sorted[Len(sorted)])

RECURSIVE SortEvents(_)
SortEvents(evs) ==
    IF Len(evs) = 0 THEN <<>>
    ELSE InsertEvent(evs[Len(evs)], SortEvents(SubSeq(evs, 1, Len(evs) - 1)))

\* a Python slice bound clamped to a list of length n
SliceBound(a, n) == IF a < 0 THEN Max2(0, a + n) ELSE Min2(a, n)

\* del seq[a:b]
SliceDel(seq, a, b) ==
    LET lo == SliceBound(a, Len(seq))
        hi == SliceBound(b, Len(seq))
    IN  IF lo < hi THEN SubSeq(seq, 1, lo) \o SubSeq(seq, hi + 1, Len(seq)) ELSE seq

\* the deletions of one chromosome, applied in order with the running shift
RECURSIVE ApplyEvents(_, _, _)
ApplyEvents(seq, events, total_shift) ==
    IF Len(events) = 0 THEN seq
    ELSE ApplyEvents(SliceDel(seq, events[1][1] - total_shift, events[1][2] - total_shift),
                     Tail(events), total_shift + events[1][3])

\* the shift of one surviving entry: removed lengths of the events that start
\* before it
RECURSIVE ShiftOf(_, _)
ShiftOf(events, start) ==
    IF Len(events) = 0 THEN 0
    ELSE (IF events[1][1] < start THEN events[1][3] ELSE 0) + ShiftOf(Tail(events), start)

\* for entry in new_entries: entry.start -= shift; entry.end -= shift
RECURSIVE ShiftEntries(_, _, _)
ShiftEntries(h, new_entries, events) ==
    IF Len(new_entries) = 0 THEN h
    ELSE LET x     == Head(new_entries)
             shift == ShiftOf(SortEvents(events[h[x].chrom]), h[x].start)
         IN  ShiftEntries([h EXCEPT ![x] = [h[x] EXCEPT !.start = h[x].start - shift,
                                                        !.end = h[x].end - shift]],
                          Tail(new_entries), events)

\* the sort key (chrom, start)
KeyLe(a, b) == a.chrom < b.chrom \/ (a.chrom = b.chrom /\ a.start <= b.start)

\* new_entries.sort(key=lambda x: (x.chrom, x.start)): stable
RECURSIVE InsertByKey(_, _, _)
InsertByKey(h, x, sorted) ==
    IF Len(sorted) = 0 THEN <<x>>
    ELSE IF KeyLe(h[sorted[Len(sorted)]], h[x]) THEN Append(sorted, x)
    ELSE Append(InsertByKey(h, x, SubSeq(sorted, 1, Len(sorted) - 1)), sorted[Len(sorted)])

RECURSIVE SortByKey(_, _)
SortByKey(h, list) ==
    IF Len(list) = 0 THEN <<>>
    ELSE InsertByKey(h, list[Len(list)], SortByKey(h, SubSeq(list, 1, Len(list) - 1)))

\* simulate_excision, given the outcome of its random draws (partial_info):
\* [h, pre_h, new_entries, events, genome], pre_h being the entries as they
\* are before the coordinates are shifted
SimulateExcision(genome, h, entries, nest_groups, removals, partial_info) ==
    LET sim0 == [h |-> h, new_entries |-> <<>>,
                 events |-> [c \in DOMAIN genome \cup {h[x].chrom : x \in DOMAIN h} |-> <<>>]]
        sim1 == ProcessGroups(sim0, nest_groups, DOMAIN nest_groups, removals, partial_info)
        sim2 == ProcessUngrouped(sim1, entries, removals, partial_info)
        h3   == ShiftEntries(sim2.h, sim2.new_entries, sim2.events)
    IN  [h           |-> h3,
         pre_h       |-> sim2.h,
         new_entries |-> SortByKey(h3, sim2.new_entries),
         events      |-> sim2.events,
         genome      |-> [c \in DOMAIN genome |->
                            ApplyEvents(genome[c], SortEvents(sim2.events[c]), 0)]]

\* ------------------------------------------------------------------------
\* fail_safe_consolidation
\* ------------------------------------------------------------------------

\* entries.sort(key=lambda x: x.start) on a list of records: stable
RECURSIVE InsertByStart(_, _)
InsertByStart(r, sorted) ==
    IF Len(sorted) = 0 THEN <<r>>
    ELSE IF sorted[Len(sorted)].start <= r.start THEN Append(sorted, r)
    ELSE Append(InsertByStart(r, SubSeq(sorted, 1, Len(sorted) - 1)), sorted[Len(sorted)])

RECURSIVE SortByStart(_)
SortByStart(recs) ==
    IF Len(recs) = 0 THEN <<>>
    ELSE InsertByStart(recs[Len(recs)], SortByStart(SubSeq(recs, 1, Len(recs) - 1)))

\* consolidated.sort(key=lambda x: (x.chrom, x.start)) on a list of records
RECURSIVE InsertRecByKey(_, _)
InsertRecByKey(r, sorted) ==
    IF Len(sorted) = 0 THEN <<r>>
    ELSE IF KeyLe(sorted[Len(sorted)], r) THEN Append(sorted, r)
    ELSE Append(InsertRecByKey(r, SubSeq(sorted, 1, Len(sorted) - 1)), sorted[Len(sorted)])

RECURSIVE SortRecsByKey(_)
SortRecsByKey(recs) ==
    IF Len(recs) = 0 THEN <<>>
    ELSE InsertRecByKey(recs[Len(recs)], SortRecsByKey(SubSeq(recs, 1, Len(recs) - 1)))

\* the inner while: the first position j > i (1-based) that does not continue
\* the run of curr
RECURSIVE RunEnd(_, _, _)
RunEnd(recs, curr, j) ==
    IF j <= Len(recs)
       /\ IsGeneId(recs[j].feature_id)
       /\ recs[j].feature_id = curr.feature_id
       /\ recs[j].strand = curr.strand
       /\ recs[j].tsd = curr.tsd
    THEN RunEnd(recs, curr, j + 1)
    ELSE j

\* the end coordinate given to a consolidated run recs[i..j-1]
RunNewEnd(recs, i, j) == recs[j - 1].end

\* the walk over the start-sorted records of one chromosome, from position i
RECURSIVE FailSafeWalk(_, _)
FailSafeWalk(recs, i) ==
    IF i > Len(recs) THEN <<>>
    ELSE LET curr == recs[i]
             j    == IF IsGeneId(curr.feature_id) THEN RunEnd(recs, curr, i + 1) ELSE i + 1
         IN  IF IsGeneId(curr.feature_id) /\ j > i + 1
             THEN <<[BedEntry(curr.chrom, curr.start, RunNewEnd(recs, i, j), curr.feature_id,
                              curr.strand, curr.tsd, curr.lineno, None)
                     EXCEPT !.subtype = "CONSOLIDATED_FAILSAFE"]>>
                  \o FailSafeWalk(recs, j)
             ELSE <<curr>> \o FailSafeWalk(recs, i + 1)

\* the records of chromosome c, in list order
RECURSIVE OfChrom(_, _)
OfChrom(recs, c) ==
    IF Len(recs) = 0 THEN <<>>
    ELSE (IF Head(recs).chrom = c THEN <<Head(recs)>> ELSE <<>>) \o OfChrom(Tail(recs), c)

\* the loop over entries_by_chrom; the final sort by (chrom, start) is stable,
\* so the order in which the chromosomes are visited does not show
RECURSIVE FailSafeChroms(_, _)
FailSafeChroms(recs, chroms) ==
    IF chroms = {} THEN <<>>
    ELSE LET c == CHOOSE x \in chroms : \A y \in chroms : x <= y
         IN  FailSafeWalk(SortByStart(OfChrom(recs, c)), 1) \o FailSafeChroms(recs, chroms \ {c})

\* fail_safe_consolidation(bed_entries), on the records of the entries
FailSafeConsolidation(recs) ==
    SortRecsByKey(FailSafeChroms(recs, {recs[k].chrom : k \in 1..Len(recs)}))

\* ------------------------------------------------------------------------
\* Inputs: BED files and genomes
\* ------------------------------------------------------------------------

\* the largest number of blocks (single records or nest-group triples) in a
\* BED file, and the largest excision count drawn
MaxBlocks == 2

MaxExcision == 3

N_TE1 == <<"T", "E", "1">>

N_TE2_LTR == <<"T", "E", "2", "_", "L", "T", "R", "l", "e", "n", ":", "1">>

N_TE3_NESTED == <<"T", "E", "3", ";", "N", "E", "S", "T", "E", "D", "_", "I", "N", ":", "x">>

N_TE4_LTR_NESTED ==
    <<"T", "E", "4", "_", "L", "T", "R", "l", "e", "n", ":", "1", ";",
      "N", "E", "S", "T", "E", "D", "_", "I", "N", ":", "x">>

N_GENE1 == <<"g", "e", "n", "e", "1">>

N_GENE2_NESTED ==
    <<"g", "e", "n", "e", "2", ";", "N", "E", "S", "T", "E", "D", "_", "I", "N", ":", "x">>

N_TE5_LTR0 == <<"T", "E", "5", "_", "L", "T", "R", "l", "e", "n", ":", "0">>

N_TE6_LTR9 == <<"T", "E", "6", "_", "L", "T", "R", "l", "e", "n", ":", "9">>

\* one line of a BED file before its coordinates are laid out: gap is the
\* distance from the end of the previous record to the start of this one
\* (negative when the records overlap), w the length of the record
Proto(name, strand, tsd, tag, gap, w) ==
    [name |-> name, strand |-> strand, tsd |-> tsd, tag |-> tag, gap |-> gap, w |-> w]

\* BED blocks whose records do not overlap: single records and triples that
\* the classifier may or may not take for a nest group
Blocks ==
    { <<Proto(N_TE1, "+", "AA", None, 1, 3)>>,
      <<Proto(N_TE2_LTR, "+", "NA", None, 1, 3)>>,
      <<Proto(N_GENE1, "+", "NA", None, 1, 2)>>,
      <<Proto(N_TE1, "+", "NA", None, 1, 2), Proto(N_TE3_NESTED, "+", "AA", None, 0, 3),
        Proto(N_TE1, "+", "NA", None, 0, 2)>>,
      <<Proto(N_TE1, "+", "NA", "t1", 1, 2), Proto(N_TE4_LTR_NESTED, "+", "NA", None, 0, 3),
        Proto(N_TE1, "+", "NA", "t2", 0, 2)>>,
      <<Proto(N_GENE1, "+", "NA", "t1", 1, 2), Proto(N_TE3_NESTED, "+", "A", None, 0, 2),
        Proto(N_GENE1, "+", "NA", "t1", 0, 2)>>,
      <<Proto(N_GENE1, "+", "NA", "t1", 1, 2), Proto(N_TE3_NESTED, "+", "A", None, 0, 2),
        Proto(N_GENE1, "+", "NA", None, 0, 2)>>,
      <<Proto(N_TE1, "+", "NA", None, 1, 2), Proto(N_GENE2_NESTED, "+", "NA", None, 0, 2),
        Proto(N_TE1, "+", "NA", None, 0, 2)>>,
      <<Proto(N_TE1, "+", "NA", None, 1, 2), Proto(N_TE3_NESTED, "+", "NA", None, 0, 2),
        Proto(N_TE1, "-", "NA", None, 0, 2)>> }

\* blocks with records that overlap, an LTR length of 0, an LTR length
\* beyond the record, and flank fragments shorter than their TSD
OddBlocks ==
    { <<Proto(N_TE1, "+", "AAA", None, 1, 2), Proto(N_TE3_NESTED, "+", "NA", None, 0, 2),
        Proto(N_TE1, "+", "AAA", None, 0, 2)>>,
      <<Proto(N_GENE1, "+", "NA", None, 1, 4), Proto(N_TE1, "+", "NA", None, -3, 2)>>,
      <<Proto(N_TE1, "+", "NA", None, 0, 4), Proto(N_TE1, "-", "NA", None, -3, 4),
        Proto(N_GENE1, "+", "NA", None, 1, 2)>>,
      <<Proto(N_TE5_LTR0, "+", "NA", None, 1, 3)>>,
      <<Proto(N_TE6_LTR9, "+", "NA", None, 1, 3)>> }

\* the concatenations of at most n blocks of the pool
RECURSIVE BlockSeqs(_, _)
BlockSeqs(pool, n) ==
    IF n = 0 THEN {<<>>}
    ELSE LET shorter == BlockSeqs(pool, n - 1)
         IN  shorter \cup {s \o b : s \in shorter, b \in pool}

\* the coordinates of the records of a list of protos, from position cur on
RECURSIVE Layout(_, _, _)
Layout(protos, cur, lineno) ==
    IF Len(protos) = 0 THEN <<>>
    ELSE LET p == Head(protos)
         IN  <<[chrom |-> 1, start |-> cur + p.gap, end |-> cur + p.gap + p.w,
                name |-> p.name, strand |-> p.strand, tsd |-> p.tsd, tag |-> p.tag,
                lineno |-> lineno]>>
             \o Layout(Tail(protos), cur + p.gap + p.w, lineno + 1)

\* the BED files of a pool: every line a record, no blank or comment line
BedFiles(pool) == {Layout(s, 0, 0) : s \in BlockSeqs(pool, MaxBlocks)}

\* chromosomes long enough for the records, each base labelled by its position
GenomeOn(bed, chroms) ==
    [c \in chroms |->
        LET ends == {bed[k].end : k \in {j \in 1..Len(bed) : bed[j].chrom = c}} \cup {0}
            top  == CHOOSE m \in ends : \A x \in ends : x <= m
        IN  [k \in 1..(top + 1) |-> k - 1]]

GenomeFor(bed) == GenomeOn(bed, {1})

\* parse_bed: one BedEntry per record
ParseBed(bed) ==
    [k \in 1..Len(bed) |->
        BedEntry(bed[k].chrom, bed[k].start, bed[k].end, bed[k].name, bed[k].strand,
                 bed[k].tsd, bed[k].lineno, bed[k].tag)]

\* ------------------------------------------------------------------------
\* The single run: main() with one worker
\* ------------------------------------------------------------------------

VARIABLES
    pc,            \* the position of main()
    bed,           \* the records of the BED file, as read
    genome,        \* genome_records: chromosome -> list of bases
    par,           \* the command-line parameters
    h,             \* the BedEntry objects
    entries,       \* the list `entries` (heap positions)
    nest_groups,   \* group id -> (flank-1, middle, flank-2)
    num_excision,  \* excision_count
    weights,       \* select_removals: the weights dictionary
    sel,           \* select_removals: eligible, removals, group_removed
    partial_info,  \* simulate_excision: entry -> LTR length, for partial excisions
    out,           \* what simulate_excision returned (and its removal events)
    final_bed,     \* what fail_safe_consolidation returned
    twin,          \* a second run of main() on the same input, for comparison
    sched,         \* the per-chromosome scheduler: its tasks and their results
    euch_intervals \* euch_intervals: None, or chromosome -> merged intervals

vars == <<pc, bed, genome, par, h, entries, nest_groups, num_excision, weights, sel,
          partial_info, out, final_bed, twin, sched, euch_intervals>>

NoEuch == [given |-> FALSE, ivals |-> <<>>]

NoSel == [eligible |-> <<>>, removals |-> {}, group_removed |-> {}]

NoOut == [h |-> <<>>, pre_h |-> <<>>, new_entries |-> <<>>, events |-> <<>>, genome |-> <<>>]

NoTwin == [par |-> <<>>, num_excision |-> 0, weights |-> <<>>]

NoSched == [rng |-> <<>>, seq |-> <<>>, exc_per_chrom |-> <<>>, tasks |-> <<>>, merged |-> <<>>]

\* the parameters of the single run: defaults, and a solo-LTR frequency
\* strictly between 0 and 100 so that each draw can go either way
DefaultPar ==
    [soloLTR_freq |-> 50, sel_coeff |-> 0, generations |-> 1, gene_weights |-> <<>>,
     fix_ex |-> None, euch_het_buffer |-> 0]

\* main() up to parse_bed, for the BED files of a pool
InitOf(pool) ==
    /\ bed \in BedFiles(pool)
    /\ genome = GenomeFor(bed)
    /\ par = DefaultPar
    /\ h = ParseBed(bed)
    /\ entries = [k \in 1..Len(bed) |-> k]
    /\ nest_groups = <<>>
    /\ num_excision = 0
    /\ weights = <<>>
    /\ sel = NoSel
    /\ partial_info = <<>>
    /\ out = NoOut
    /\ final_bed = <<>>
    /\ twin = NoTwin
    /\ euch_intervals = NoEuch
    /\ sched = NoSched
    /\ pc = "classify"

Init == InitOf(Blocks)

InitAny == InitOf(Blocks \cup OddBlocks)

\* entries, nest_groups = classify_entries(entries); an IndexError ends the run
Classify ==
    /\ pc = "classify"
    /\ LET r == ClassifyEntries(h)
       IN  /\ h' = r.es
           /\ nest_groups' = r.groups
           /\ pc' = IF r.error THEN "crashed" ELSE "count"
    /\ UNCHANGED <<bed, genome, par, entries, num_excision, weights, sel, partial_info,
                   out, final_bed, twin, sched, euch_intervals>>

\* excision_count = np.random.poisson(lambda_val): any count up to the bound
Count ==
    /\ pc = "count"
    /\ num_excision' \in 0..MaxExcision
    /\ pc' = "select"
    /\ UNCHANGED <<bed, genome, par, h, entries, nest_groups, weights, sel, partial_info,
                   out, final_bed, twin, sched, euch_intervals>>

\* select_removals up to its sampling loop
SelectStart ==
    /\ pc = "select"
    /\ LET el == EligibleList(h, entries)
       IN  IF Len(el) = 0
           THEN /\ sel' = NoSel
                /\ weights' = <<>>
                /\ pc' = "simulate"
           ELSE /\ sel' = [eligible |-> el, removals |-> {}, group_removed |-> {}]
                /\ weights' = Weights(h, entries, nest_groups, par.gene_weights,
                                      par.generations, par.sel_coeff, euch_intervals)
                /\ pc' = "draw"
    /\ UNCHANGED <<bed, genome, par, h, entries, nest_groups, num_excision, partial_info,
                   out, final_bed, twin, sched, euch_intervals>>

\* one iteration of the sampling loop: the draw can land on any candidate
Draw ==
    /\ pc = "draw"
    /\ LoopGuard(sel, num_excision)
    /\ \E chosen \in Range(sel.eligible) : sel' = SelectIteration(h, nest_groups, sel, chosen)
    /\ UNCHANGED <<pc, bed, genome, par, h, entries, nest_groups, num_excision, weights,
                   partial_info, out, final_bed, twin, sched, euch_intervals>>

\* the loop ends and select_removals returns
SelectReturn ==
    /\ pc = "draw"
    /\ ~LoopGuard(sel, num_excision)
    /\ pc' = "simulate"
    /\ UNCHANGED <<bed, genome, par, h, entries, nest_groups, num_excision, weights, sel,
                   partial_info, out, final_bed, twin, sched, euch_intervals>>

\* simulate_excision, with every outcome of its partial-excision draws
Simulate ==
    /\ pc = "simulate"
    /\ \E drawn \in PartialOutcomes(PartialCandidates(h, entries, sel.removals),
                                    par.soloLTR_freq) :
          /\ partial_info' = PartialInfo(h, drawn)
          /\ out' = SimulateExcision(genome, h, entries, nest_groups, sel.removals,
                                     PartialInfo(h, drawn))
    /\ pc' = "failsafe"
    /\ UNCHANGED <<bed, genome, par, h, entries, nest_groups, num_excision, weights, sel,
                   final_bed, twin, sched, euch_intervals>>

\* final_bed = fail_safe_consolidation(updated_entries)
FailSafe ==
    /\ pc = "failsafe"
    /\ final_bed' = FailSafeConsolidation([k \in 1..Len(out.new_entries) |->
                                              out.h[out.new_entries[k]]])
    /\ pc' = "done"
    /\ UNCHANGED <<bed, genome, par, h, entries, nest_groups, num_excision, weights, sel,
                   partial_info, out, twin, sched, euch_intervals>>

Next == Classify \/ Count \/ SelectStart \/ Draw \/ SelectReturn \/ Simulate \/ FailSafe

Spec == Init /\ [][Next]_vars

\* the sampling loop runs on: an iteration or an exit that can be taken is taken
SpecLive == Init /\ [][Next]_vars /\ WF_vars(Draw) /\ WF_vars(SelectReturn)

NextAny == Classify \/ Count \/ SelectStart \/ Draw \/ SelectReturn \/ Simulate \/ FailSafe

SpecAny == InitAny /\ [][NextAny]_vars

\* ------------------------------------------------------------------------
\* Properties of the single run
\* ------------------------------------------------------------------------

Rewritten == pc \in {"failsafe", "done"}

\* seq[a:b] read as Python reads it, for 0 <= a
ReadSlice(seq, a, b) == SubSeq(seq, Min2(a, Len(seq)) + 1, Min2(b, Len(seq)))

\* two removal events share a base
EventsOverlap(e1, e2) == Max2(e1[1], e2[1]) < Min2(e1[2], e2[2])

\* no two removal events recorded for chromosome c overlap
EventsDisjoint(c) ==
    \A i, j \in 1..Len(out.events[c]) :
        i # j => ~EventsOverlap(out.events[c][i], out.events[c][j])

\* the span an input entry x names before the shift is applied
PreStart(x) == h[x].start

PreEnd(x) == IF x \in DOMAIN partial_info THEN h[x].start + partial_info[x] ELSE h[x].end

\* C1: after simulate_excision, provided the removal events of a chromosome
\* do not overlap, every surviving input Feature names the same bases as
\* before: the updated sequence read at its new [start, end) equals the
\* original sequence read at its pre-shift [start, end) (for a partially
\* excised Feature, [start, start + L)).
C1_SameBases ==
    Rewritten =>
        \A k \in 1..Len(out.new_entries) :
            LET x == out.new_entries[k]
            IN  (x <= Len(h) /\ EventsDisjoint(h[x].chrom)) =>
                    ReadSlice(out.genome[h[x].chrom], out.h[x].start, out.h[x].end)
                      = ReadSlice(genome[h[x].chrom], PreStart(x), PreEnd(x))

\* C2: for inputs whose Features satisfy 0 <= start < end, every Feature of
\* the final output satisfies start < end, start >= 0 and end >= 0.
C2_OutputSpans ==
    (pc = "done" /\ \A k \in 1..Len(bed) : 0 <= bed[k].start /\ bed[k].start < bed[k].end)
    => \A k \in 1..Len(final_bed) :
          /\ final_bed[k].start < final_bed[k].end
          /\ final_bed[k].start >= 0
          /\ final_bed[k].end >= 0

\* the removal events of chromosome c are intervals inside the sequence,
\* no two of them overlapping
EventsWellFormed(c) ==
    /\ \A i \in 1..Len(out.events[c]) :
          /\ 0 <= out.events[c][i][1]
          /\ out.events[c][i][1] <= out.events[c][i][2]
          /\ out.events[c][i][2] <= Len(genome[c])
    /\ EventsDisjoint(c)

\* the claimed amount by which the excision of x shortens the sequence:
\* end - (start + L) when partial, end - start - tsd_length when full
ClaimedCut(x) ==
    IF x \in DOMAIN partial_info THEN h[x].end - (h[x].start + partial_info[x])
    ELSE h[x].end - h[x].start - (IF h[x].tsd = "NA" THEN 0 ELSE Len(h[x].tsd))

\* x is the middle of a nest group that the rewrite consolidated: it was
\* excised in full, the flanks carry one tag and, in a TE group, stay
MiddleOfConsolidated(x) ==
    \E g \in DOMAIN nest_groups :
        /\ nest_groups[g][2] = x
        /\ x \in sel.removals /\ x \notin DOMAIN partial_info
        /\ h[nest_groups[g][1]].tag = h[nest_groups[g][3]].tag
        /\ (h[nest_groups[g][1]].subtype \in {"CUT_PAIR_GENE_1", "CUT_PAIR_GENE_2"}
            \/ (nest_groups[g][1] \notin sel.removals /\ nest_groups[g][3] \notin sel.removals))

\* the amount by which the excision of x shortens the sequence
ActualCut(x) == IF MiddleOfConsolidated(x) THEN h[x].end - h[x].start ELSE ClaimedCut(x)

RECURSIVE SumClaimedCut(_)
SumClaimedCut(S) ==
    IF S = {} THEN 0
    ELSE LET x == CHOOSE y \in S : TRUE IN ClaimedCut(x) + SumClaimedCut(S \ {x})

RECURSIVE SumActualCut(_)
SumActualCut(S) ==
    IF S = {} THEN 0
    ELSE LET x == CHOOSE y \in S : TRUE IN ActualCut(x) + SumActualCut(S \ {x})

InitialEligible == {x \in Range(entries) : h[x].subtype \in EligibleSubtypes}

Sampling == pc \in {"draw", "simulate", "failsafe", "done"}

GroupMembers(g) == {nest_groups[g][1], nest_groups[g][2], nest_groups[g][3]}

GeneKind(g) == IsGeneId(h[nest_groups[g][1]].feature_id)

C6_GenesNeverChosen ==
    \A x \in sel.removals : ~StartsWith(h[x].feature_id, GENE)

TagsDiffer(g) == h[nest_groups[g][1]].tag # h[nest_groups[g][3]].tag

C16_SamplerTerminates ==
    /\ [][(pc = "draw" /\ sel' # sel)
             => /\ Len(sel'.eligible) < Len(sel.eligible)
                /\ Cardinality(sel'.removals) <= Cardinality(sel.removals) + 1]_vars
    /\ (pc = "draw") ~> (pc = "simulate")
    /\ [](pc = "simulate" =>
             /\ (Cardinality(sel.removals) = num_excision \/ Len(sel.eligible) = 0)
             /\ Cardinality(sel.removals) <= num_excision
             /\ sel.removals \subseteq InitialEligible)

\* C16 witness: more excisions were requested than there are candidates, and
\* select_removals returned with the candidates exhausted
C16_Witness_RequestExceeds ==
    /\ pc = "simulate"
    /\ Cardinality(InitialEligible) >= 2
    /\ num_excision > Cardinality(InitialEligible)
    /\ Len(sel.eligible) = 0
    /\ sel.removals # {}

\* ------------------------------------------------------------------------
\* The single run on records with LTR markers
\* ------------------------------------------------------------------------

N_TE7_LTR_CUT ==
    <<"T", "E", "7", "_", "L", "T", "R", "l", "e", "n", ":", "1", ";",
      "C", "U", "T", "_", "B", "Y", ":", "y">>

N_TE8_LTR == <<"T", "E", "8", "_", "L", "T", "R", "l", "e", "n", ":", "1">>

N_TE8_LTR_NOTE ==
    <<"T", "E", "8", "_", "L", "T", "R", "l", "e", "n", ":", "1", ";", "I", "D", "=", "a">>

N_TE9_LTR_SOLO ==
    <<"T", "E", "9", "_", "L", "T", "R", "l", "e", "n", ":", "1", "_", "S", "O", "L", "O">>

N_TE9_LTR_FRAG ==
    <<"T", "E", "9", "_", "L", "T", "R", "l", "e", "n", ":", "1", "_", "F", "R", "A", "G">>

\* records with an LTR length: bare, with a supplemental attribute, cut by
\* another element, already solo or fragmented, as the middle of a TE group
\* and of a gene group, and as the flanks of a TE group
LtrBlocks ==
    { <<Proto(N_TE2_LTR, "+", "NA", None, 1, 3)>>,
      <<Proto(N_TE8_LTR, "+", "NA", None, 1, 3)>>,
      <<Proto(N_TE8_LTR_NOTE, "+", "NA", None, 1, 3)>>,
      <<Proto(N_TE8_LTR_NOTE, "-", "NA", None, 1, 3)>>,
      <<Proto(N_TE7_LTR_CUT, "+", "NA", None, 1, 3)>>,
      <<Proto(N_TE9_LTR_SOLO, "+", "NA", None, 1, 3)>>,
      <<Proto(N_TE9_LTR_FRAG, "+", "AA", None, 1, 3)>>,
      <<Proto(N_TE1, "+", "NA", None, 1, 2), Proto(N_TE4_LTR_NESTED, "+", "AA", None, 0, 3),
        Proto(N_TE1, "+", "NA", None, 0, 2)>>,
      <<Proto(N_GENE1, "+", "NA", None, 1, 2), Proto(N_TE4_LTR_NESTED, "+", "NA", None, 0, 3),
        Proto(N_GENE1, "+", "NA", None, 0, 2)>>,
      <<Proto(N_TE2_LTR, "+", "NA", None, 1, 3), Proto(N_TE3_NESTED, "+", "NA", None, 0, 2),
        Proto(N_TE2_LTR, "+", "NA", None, 0, 3)>> }

InitLtr == InitOf(LtrBlocks)

NextLtr == Classify \/ Count \/ SelectStart \/ Draw \/ SelectReturn \/ Simulate \/ FailSafe

SpecLtr == InitLtr /\ [][NextLtr]_vars

\* the chosen features that the rewrite kept: the partial excisions
PartiallyExcised == {x \in sel.removals : x \in Range(out.new_entries)}

\* o is a look-alike of x within 100 lines
LookAlike(x, o) ==
    /\ o # x
    /\ Abs(h[o].lineno - h[x].lineno) <= 100
    /\ h[o].tsd = h[x].tsd
    /\ h[o].strand = h[x].strand
    /\ (StartsWith(h[x].name, h[o].name) \/ StartsWith(h[o].name, h[x].name))

\* conditions (a), (b) and the CUT_BY filter of (c)
MarkedIntactLtr(x) ==
    /\ h[x].subtype \in {"NON_NEST_GROUP_TE", "NEST_TE_IN_TE"}
    /\ Contains(h[x].feature_id, LTRLEN)
    /\ ~Contains(h[x].feature_id, SOLO)
    /\ ~Contains(h[x].feature_id, FRAG)
    /\ (Len(h[x].supp) > 0 => ~Contains(h[x].supp[1], CUT_BY))

Occurrences(list, x) == Cardinality({k \in 1..Len(list) : list[k] = x})

MaxLines == 8

MaxGap == 3

\* the records the classifier runs are made of: a TE flank and a nested middle
ClassifyPool ==
    { <<Proto(N_TE1, "+", "NA", None, 0, 2)>>,
      <<Proto(N_TE3_NESTED, "+", "NA", None, 0, 2)>> }

\* parse_bed numbers the records by file line (enumerate over all lines,
\* blank and comment lines included): the records from position `at` on
\* follow `skipped` lines that hold no record
WithSkippedLines(recs, at, skipped) ==
    [k \in 1..Len(recs) |->
        [recs[k] EXCEPT !.lineno = IF k >= at THEN recs[k].lineno + skipped
                                   ELSE recs[k].lineno]]

\* BED files with at most one run of blank or comment lines
GappedBedFiles ==
    LET plain == {Layout(s, 0, 0) : s \in BlockSeqs(ClassifyPool, MaxLines)}
    IN  plain \cup {WithSkippedLines(b, at, g) : b \in plain, at \in 1..MaxLines, g \in 1..MaxGap}

InitClassify ==
    /\ bed \in GappedBedFiles
    /\ genome = GenomeFor(bed)
    /\ par = DefaultPar
    /\ h = ParseBed(bed)
    /\ entries = [k \in 1..Len(bed) |-> k]
    /\ nest_groups = <<>>
    /\ num_excision = 0
    /\ weights = <<>>
    /\ sel = NoSel
    /\ partial_info = <<>>
    /\ out = NoOut
    /\ final_bed = <<>>
    /\ twin = NoTwin
    /\ euch_intervals = NoEuch
    /\ sched = NoSched
    /\ pc = "classify"

NextClassify == Classify

SpecClassify == InitClassify /\ [][NextClassify]_vars

\* C10: after classify_entries, whatever the line numbers of the records,
\* every nest group is three Features at consecutive list positions and no
\* Feature is a member of more than one group.
C10_GroupsExclusive ==
    pc = "count" =>
        /\ \A g \in DOMAIN nest_groups :
              /\ nest_groups[g][2] = nest_groups[g][1] + 1
              /\ nest_groups[g][3] = nest_groups[g][2] + 1
        /\ \A g1, g2 \in DOMAIN nest_groups :
              g1 # g2 => GroupMembers(g1) \cap GroupMembers(g2) = {}

\* ------------------------------------------------------------------------
\* The single run on files with blank or comment lines
\* ------------------------------------------------------------------------

\* files of MaxLines records that begin with a nest group
GapRunFiles ==
    {b \in GappedBedFiles :
        /\ Len(b) = MaxLines
        /\ b[1].name = N_TE1 /\ b[2].name = N_TE3_NESTED /\ b[3].name = N_TE1}

InitGap ==
    /\ bed \in GapRunFiles
    /\ genome = GenomeFor(bed)
    /\ par = DefaultPar
    /\ h = ParseBed(bed)
    /\ entries = [k \in 1..Len(bed) |-> k]
    /\ nest_groups = <<>>
    /\ num_excision = 0
    /\ weights = <<>>
    /\ sel = NoSel
    /\ partial_info = <<>>
    /\ out = NoOut
    /\ final_bed = <<>>
    /\ twin = NoTwin
    /\ euch_intervals = NoEuch
    /\ sched = NoSched
    /\ pc = "classify"

NextGap == Classify \/ Count \/ SelectStart \/ Draw \/ SelectReturn \/ Simulate \/ FailSafe

SpecGap == InitGap /\ [][NextGap]_vars

\* the condition under which C13 has group g consolidated
ShouldConsolidate(g) ==
    /\ nest_groups[g][2] \in sel.removals
    /\ nest_groups[g][2] \notin DOMAIN partial_info
    /\ ~TagsDiffer(g)
    /\ ~GeneKind(g) => (nest_groups[g][1] \notin sel.removals
                        /\ nest_groups[g][3] \notin sel.removals)

\* the Features the rewrite synthesized
Synthesized == (Len(h) + 1)..Len(out.pre_h)

\* y is the replacement of group g as C13 describes it
ReplacementOf(g, y) ==
    LET f1  == h[nest_groups[g][1]]
        mid == h[nest_groups[g][2]]
        f2  == h[nest_groups[g][3]]
        r   == out.pre_h[y]
    IN  /\ r.chrom = mid.chrom
        /\ r.start = f1.start
        /\ r.end = f2.end - (mid.end - mid.start)
        /\ r.feature_id = f1.feature_id
        /\ r.strand = f1.strand
        /\ r.tsd = f1.tsd
        /\ r.tag = f1.tag
        /\ r.lineno = -1

\* C13: a nest group is consolidated if and only if its middle is excised in
\* full, its flanks carry the same tag and, in a TE group, no flank is
\* chosen; then none of its members is in the output, one synthesized
\* Feature replaces them and the middle's whole span is its one event.
C13_ConsolidationIff ==
    Rewritten =>
        /\ Cardinality(Synthesized) = Cardinality({g \in DOMAIN nest_groups : ShouldConsolidate(g)})
        /\ \A y \in Synthesized :
              /\ Occurrences(out.new_entries, y) = 1
              /\ \E g \in DOMAIN nest_groups : ShouldConsolidate(g) /\ ReplacementOf(g, y)
        /\ \A g \in DOMAIN nest_groups :
              ShouldConsolidate(g) =>
                 LET mid == h[nest_groups[g][2]]
                 IN  /\ GroupMembers(g) \cap Range(out.new_entries) = {}
                     /\ \E y \in Synthesized : ReplacementOf(g, y)
                     /\ Occurrences(out.events[mid.chrom],
                                    <<mid.start, mid.end, mid.end - mid.start>>) = 1
                     /\ \A k \in 1..Len(out.events[mid.chrom]) :
                           LET ev == out.events[mid.chrom][k]
                           IN  ev[1] = mid.start
                                 \/ ev[1] >= h[nest_groups[g][3]].end
                                 \/ ev[2] <= h[nest_groups[g][1]].start

\* ------------------------------------------------------------------------
\* fail_safe_consolidation on the lists simulate_excision can return
\* ------------------------------------------------------------------------

MaxRecs == 3
MaxStart == 2
MaxLen == 3

N_GENE1_NOTE == <<"g", "e", "n", "e", "1", ";", "I", "D", "=", "a">>

\* gene and TE records of one chromosome, overlapping ones included
FailSafeRecs ==
    {BedEntry(1, s, s + w, p[1], p[2], "NA", 0, None) :
        s \in 0..MaxStart, w \in {1, MaxLen},
        p \in {<<N_GENE1, "+">>, <<N_GENE1_NOTE, "+">>, <<N_GENE1, "-">>, <<N_TE1, "+">>}}

\* the lists of at most n records in the order simulate_excision returns
\* them: by start
RECURSIVE SortedLists(_)
SortedLists(n) ==
    IF n = 0 THEN {<<>>}
    ELSE LET shorter == SortedLists(n - 1)
         IN  shorter \cup {Append(l, r) : l \in shorter, r \in FailSafeRecs}

InitFailSafe ==
    /\ bed = <<>>
    /\ genome = <<>>
    /\ par = DefaultPar
    /\ h = <<>>
    /\ entries = <<>>
    /\ nest_groups = <<>>
    /\ num_excision = 0
    /\ weights = <<>>
    /\ sel = NoSel
    /\ partial_info = <<>>
    /\ \E l \in SortedLists(MaxRecs) :
          /\ \A k \in 1..(Len(l) - 1) : l[k].start <= l[k + 1].start
          /\ out = [NoOut EXCEPT !.h = l, !.new_entries = [k \in 1..Len(l) |-> k]]
    /\ final_bed = <<>>
    /\ twin = NoTwin
    /\ euch_intervals = NoEuch
    /\ sched = NoSched
    /\ pc = "failsafe"

NextFailSafe == FailSafe

SpecFailSafe == InitFailSafe /\ [][NextFailSafe]_vars

\* two records of one run of C14
SameRun(a, b) ==
    /\ IsGeneId(a.feature_id) /\ IsGeneId(b.feature_id)
    /\ a.feature_id = b.feature_id /\ a.strand = b.strand /\ a.tsd = b.tsd

\* the run that starts at position i of a start-sorted list
RunOf(recs, i) ==
    {j \in i..Len(recs) : \A k \in i..j : SameRun(recs[i], recs[k])}

\* position i starts a run: no run continues into it
RunStart(recs, i) == i = 1 \/ ~SameRun(recs[i - 1], recs[i])

\* C14: every run of two or more consecutive gene Features with the same
\* feature_id, strand and tsd becomes one Feature from the least start to the
\* greatest end of the run, named by the bare feature_id; any other Feature
\* is output unchanged.
C14_MinStartMaxEnd ==
    pc = "done" =>
        LET recs == out.h
        IN  /\ \A i \in 1..Len(recs) :
                  (RunStart(recs, i) /\ Cardinality(RunOf(recs, i)) >= 2) =>
                      \E k \in 1..Len(final_bed) :
                          /\ final_bed[k].subtype = "CONSOLIDATED_FAILSAFE"
                          /\ final_bed[k].name = recs[i].feature_id
                          /\ \A j \in RunOf(recs, i) :
                                /\ final_bed[k].start <= recs[j].start
                                /\ final_bed[k].end >= recs[j].end
                          /\ \E j \in RunOf(recs, i) : final_bed[k].start = recs[j].start
                          /\ \E j \in RunOf(recs, i) : final_bed[k].end = recs[j].end
            /\ \A i \in 1..Len(recs) :
                  (~IsGeneId(recs[i].feature_id)
                   \/ (RunStart(recs, i) /\ Cardinality(RunOf(recs, i)) = 1))
                      => \E k \in 1..Len(final_bed) : final_bed[k] = recs[i]

\* the Features of the input are pairwise non-overlapping on each chromosome
InputDisjoint ==
    \A i, j \in 1..Len(bed) :
        (i # j /\ bed[i].chrom = bed[j].chrom)
            => ~(Max2(bed[i].start, bed[j].start) < Min2(bed[i].end, bed[j].end))

\* C17: on an input of pairwise non-overlapping Features, whatever removal
\* set and partial outcomes are drawn, the removal events simulate_excision
\* records for a chromosome are pairwise non-overlapping.
C17_NoOverlappingDeletions ==
    (Rewritten /\ InputDisjoint) => \A c \in DOMAIN out.events : EventsDisjoint(c)

\* the entry x is a record of the final output, as simulate_excision left it
InFinalBed(x) == \E k \in 1..Len(final_bed) : final_bed[k] = out.h[x]

\* C20: after simulate_excision and fail_safe_consolidation the two flanks
\* of a GENE nest group whose tags differ are two separate records of the
\* final output, each with its own tag, also when the middle of the group
\* has been excised in full.
C20_TagMismatchSurvivesFailSafe ==
    pc = "done" =>
        \A g \in DOMAIN nest_groups :
            (GeneKind(g) /\ TagsDiffer(g)) =>
                /\ InFinalBed(nest_groups[g][1])
                /\ InFinalBed(nest_groups[g][3])
                /\ out.h[nest_groups[g][1]].tag = h[nest_groups[g][1]].tag
                /\ out.h[nest_groups[g][3]].tag = h[nest_groups[g][3]].tag
                /\ out.h[nest_groups[g][1]] # out.h[nest_groups[g][3]]

\* ------------------------------------------------------------------------
\* Two runs under --fix_ex that differ in the selection parameters
\* ------------------------------------------------------------------------

MaxSel == 1
MaxRate == 1
MaxGenerations == 2

\* the contents gene_selection.tsv can have: absent or empty, or a weight for gene1
GeneTables == {<<>>, [g \in {N_GENE1} |-> 2]}

\* genome_size = sum(len(rec.seq) for rec in genome_records.values())
RECURSIVE GenomeSize(_, _)
GenomeSize(g, chroms) ==
    IF chroms = {} THEN 0
    ELSE LET c == CHOOSE x \in chroms : TRUE
         IN  Len(g[c]) + GenomeSize(g, chroms \ {c})

\* lambda_val = args.fix_ex * genome_size * args.generations
LambdaVal(p, g) == p.fix_ex * GenomeSize(g, DOMAIN g) * p.generations

FixPars ==
    {[soloLTR_freq |-> 50, sel_coeff |-> s, generations |-> n, gene_weights |-> t,
      fix_ex |-> r, euch_het_buffer |-> 0] : s \in 0..MaxSel, n \in 1..MaxGenerations, t \in GeneTables,
                      r \in 1..MaxRate}

InitFix ==
    /\ bed \in BedFiles(Blocks)
    /\ genome = GenomeFor(bed)
    /\ par \in FixPars
    /\ h = ParseBed(bed)
    /\ entries = [k \in 1..Len(bed) |-> k]
    /\ nest_groups = <<>>
    /\ num_excision = 0
    /\ weights = <<>>
    /\ sel = NoSel
    /\ partial_info = <<>>
    /\ out = NoOut
    /\ final_bed = <<>>
    /\ \E q \in FixPars :
          /\ q.fix_ex = par.fix_ex /\ q.generations = par.generations
          /\ q.soloLTR_freq = par.soloLTR_freq
          /\ (q.sel_coeff # par.sel_coeff \/ q.gene_weights # par.gene_weights)
          /\ twin = [par |-> q, num_excision |-> 0, weights |-> <<>>]
          /\ euch_intervals = NoEuch
    /\ sched = NoSched
    /\ pc = "classify"

\* excision_count = np.random.poisson(lambda_val) in both runs: the generator
\* is seeded alike, so that equal lambdas give equal counts
CountFix ==
    /\ pc = "count"
    /\ \E draw \in [{LambdaVal(par, genome), LambdaVal(twin.par, genome)} -> 0..MaxExcision] :
          /\ num_excision' = draw[LambdaVal(par, genome)]
          /\ twin' = [twin EXCEPT !.num_excision = draw[LambdaVal(twin.par, genome)]]
    /\ pc' = "select"
    /\ UNCHANGED <<bed, genome, par, h, entries, nest_groups, weights, sel, partial_info,
                   out, final_bed, sched, euch_intervals>>

\* select_removals up to its sampling loop, in both runs
WeighFix ==
    /\ pc = "select"
    /\ LET el == EligibleList(h, entries)
       IN  /\ sel' = [eligible |-> el, removals |-> {}, group_removed |-> {}]
           /\ weights' = Weights(h, entries, nest_groups, par.gene_weights,
                                 par.generations, par.sel_coeff, NoEuch)
           /\ twin' = [twin EXCEPT !.weights =
                          Weights(h, entries, nest_groups, twin.par.gene_weights,
                                  twin.par.generations, twin.par.sel_coeff, NoEuch)]
    /\ pc' = "draw"
    /\ UNCHANGED <<bed, genome, par, h, entries, nest_groups, num_excision, partial_info,
                   out, final_bed, sched, euch_intervals>>

NextFix == Classify \/ CountFix \/ WeighFix

SpecFix == InitFix /\ [][NextFix]_vars

\* C9: with --fix_ex set, two runs that differ only in the selection
\* coefficient or in the gene-weight table draw the same excision count and
\* give every eligible feature the same sampling weight.
C9_FixedRateIgnoresSelection ==
    pc = "draw" => num_excision = twin.num_excision /\ weights = twin.weights

\* ------------------------------------------------------------------------
\* main() with one worker and with one worker per chromosome
\* ------------------------------------------------------------------------

NumChroms == 2
MaxSchedBlocks == 2
MaxDraws == 2
DrawGrid == 2

\* records of equal length, so that every candidate weighs exp(0) = 1
SchedPool ==
    { <<Proto(N_TE1, "+", "NA", None, 1, 2)>>,
      <<Proto(N_TE2_LTR, "+", "NA", None, 1, 2)>>,
      <<Proto(N_TE1, "+", "NA", None, 1, 2), Proto(N_TE3_NESTED, "+", "NA", None, 0, 2),
        Proto(N_TE1, "+", "NA", None, 0, 2)>> }

OnChrom(recs, c) == [k \in 1..Len(recs) |-> [recs[k] EXCEPT !.chrom = c]]

\* BED files with records on each chromosome, chromosome after chromosome
RECURSIVE SchedBedsUpTo(_)
SchedBedsUpTo(c) ==
    IF c = 0 THEN {<<>>}
    ELSE {b \o OnChrom(Layout(s, 0, Len(b)), c) :
             b \in SchedBedsUpTo(c - 1), s \in BlockSeqs(SchedPool, MaxSchedBlocks)}

\* sorted(genome_records.keys())
Chroms == 1..NumChroms

\* updated_genome = {}, updated_entries = [], and no result taken yet
NoMerged == [done |-> FALSE, upto |-> 0, genome |-> <<>>, entries |-> <<>>]

NoRun == [done |-> FALSE, removals |-> {}, partial |-> {}, out |-> NoOut]

InitSched ==
    /\ bed \in SchedBedsUpTo(NumChroms)
    /\ genome = GenomeOn(bed, Chroms)
    /\ par = DefaultPar
    /\ h = ParseBed(bed)
    /\ entries = [k \in 1..Len(bed) |-> k]
    /\ nest_groups = <<>>
    /\ num_excision = 0
    /\ weights = <<>>
    /\ sel = NoSel
    /\ partial_info = <<>>
    /\ out = NoOut
    /\ final_bed = <<>>
    /\ twin = NoTwin
    /\ euch_intervals = NoEuch
    /\ \E rng \in [0..NumChroms -> [1..MaxDraws -> 0..(DrawGrid - 1)]] :
          sched = [rng |-> rng, seq |-> NoRun, exc_per_chrom |-> <<>>,
                   tasks |-> [c \in Chroms |-> NoRun],
                   merged |-> NoMerged]
    /\ pc = "classify"

\* the count drawn by main(), the same for either number of workers
CountSched ==
    /\ pc = "count"
    /\ num_excision' \in 0..MaxDraws
    /\ pc' = "select"
    /\ UNCHANGED <<bed, genome, par, h, entries, nest_groups, weights, sel, partial_info,
                   out, final_bed, twin, sched, euch_intervals>>

\* the candidate that r = random.uniform(0, total_weight) lands on when the
\* generator returns u / DrawGrid and every weight is 1: the first whose
\* cumulative weight reaches r
ChosenAt(eligible, u) ==
    eligible[CHOOSE j \in 1..Len(eligible) :
                /\ j * DrawGrid >= u * Len(eligible)
                /\ \A i \in 1..(j - 1) : i * DrawGrid < u * Len(eligible)]

\* the sampling loop of select_removals on the draws of one seed
RECURSIVE SelectLoop(_, _, _, _, _, _)
SelectLoop(heap, groups, st, num, stream, i) ==
    IF LoopGuard(st, num) /\ i <= Len(stream)
    THEN SelectLoop(heap, groups,
                    SelectIteration(heap, groups, st, ChosenAt(st.eligible, stream[i])),
                    num, stream, i + 1)
    ELSE st

\* select_removals(entries, nest_groups, num_excision, seed, ...)
SelectRemovals(heap, ents, groups, num, stream) ==
    SelectLoop(heap, groups,
               [eligible |-> EligibleList(heap, ents), removals |-> {}, group_removed |-> {}],
               num, stream, 1).removals

\* key=lambda x: (x.chrom, x.start, x.end, x.lineno)
RemovalBefore(a, b) ==
    \/ a.chrom < b.chrom
    \/ a.chrom = b.chrom /\ a.start < b.start
    \/ a.chrom = b.chrom /\ a.start = b.start /\ a.end < b.end
    \/ a.chrom = b.chrom /\ a.start = b.start /\ a.end = b.end /\ a.lineno < b.lineno

\* the draws of random.random() < soloLTR_freq / 100 on the draws of one seed:
\* the candidates take them in the order of sorted_removals
PartialDrawn(heap, ents, removals, freq, stream) ==
    LET cands == PartialCandidates(heap, ents, removals)
        nth(x) == 1 + Cardinality({y \in cands : RemovalBefore(heap[y], heap[x])})
    IN  {x \in cands : nth(x) <= Len(stream) /\ stream[nth(x)] * 100 < freq * DrawGrid}

\* the single-threaded path of main(); the run with one worker is started
\* once the run with a worker per chromosome has gathered all its results
SeqRun ==
    /\ pc = "select"
    /\ sched.merged.done
    /\ ~sched.seq.done
    /\ LET removals == SelectRemovals(h, entries, nest_groups, num_excision, sched.rng[0])
           drawn    == PartialDrawn(h, entries, removals, par.soloLTR_freq, sched.rng[1])
       IN  sched' = [sched EXCEPT !.seq =
                        [done     |-> TRUE,
                         removals |-> removals,
                         partial  |-> drawn,
                         out      |-> SimulateExcision(genome, h, entries, nest_groups,
                                                       removals, PartialInfo(h, drawn))]]
    /\ UNCHANGED <<pc, bed, genome, par, h, entries, nest_groups, num_excision, weights, sel,
                   partial_info, out, final_bed, twin, euch_intervals>>

\* entries_by_chrom[c]
EntriesByChrom(heap, ents, c) == Filter(ents, {x \in Range(ents) : heap[x].chrom = c})

\* nest_by_chrom[c]
NestByChrom(heap, groups, c) ==
    [g \in {gid \in DOMAIN groups : heap[groups[gid][1]].chrom = c} |-> groups[g]]

\* elig_counts[c]
EligCount(heap, ents, c) == Len(EligibleList(heap, EntriesByChrom(heap, ents, c)))

\* exc_per_chrom: the floors of the exact shares, and one more for the chromosomes
\* with the largest fractional parts (the stable sort keeps the order of chroms
\* among equal ones)
ExcPerChrom(count, elig, chroms) ==
    LET total  == IF SumOver(elig, chroms) = 0 THEN 1 ELSE SumOver(elig, chroms)
        floors == [c \in chroms |-> (count * elig[c]) \div total]
        frac   == [c \in chroms |-> (count * elig[c]) % total]
        rem    == count - SumOver(floors, chroms)
        rank   == [c \in chroms |->
                      Cardinality({d \in chroms : \/ frac[d] > frac[c]
                                                  \/ frac[d] = frac[c] /\ d < c})]
    IN  [c \in chroms |-> floors[c] + (IF rank[c] < rem THEN 1 ELSE 0)]

\* the parallel path of main() up to the submission of its tasks
Allocate ==
    /\ pc = "select"
    /\ sched.exc_per_chrom = <<>>
    /\ sched' = [sched EXCEPT !.exc_per_chrom =
                    ExcPerChrom(num_excision, [c \in Chroms |-> EligCount(h, entries, c)],
                                Chroms)]
    /\ UNCHANGED <<pc, bed, genome, par, h, entries, nest_groups, num_excision, weights, sel,
                   partial_info, out, final_bed, twin, euch_intervals>>

\* process_chrom of the task of chromosome c, seeded with args.seed + idx
ProcessChrom(c) ==
    /\ pc = "select"
    /\ sched.exc_per_chrom # <<>>
    /\ ~sched.tasks[c].done
    /\ LET ents     == EntriesByChrom(h, entries, c)
           groups   == NestByChrom(h, nest_groups, c)
           removals == SelectRemovals(h, ents, groups, sched.exc_per_chrom[c],
                                      sched.rng[c - 1])
           drawn    == PartialDrawn(h, ents, removals, par.soloLTR_freq, sched.rng[c])
       IN  sched' = [sched EXCEPT !.tasks[c] =
                        [done     |-> TRUE,
                         removals |-> removals,
                         partial  |-> drawn,
                         out      |-> SimulateExcision([d \in {c} |-> genome[d]], h, ents,
                                                       groups, removals,
                                                       PartialInfo(h, drawn))]]
    /\ UNCHANGED <<pc, bed, genome, par, h, entries, nest_groups, num_excision, weights, sel,
                   partial_info, out, final_bed, twin, euch_intervals>>

\* updated_entries.extend(ue), in the order of the tasks
RECURSIVE MergedEntries(_, _)
MergedEntries(tasks, c) ==
    IF c = 0 THEN <<>>
    ELSE MergedEntries(tasks, c - 1)
         \o [k \in 1..Len(tasks[c].out.new_entries) |->
                tasks[c].out.h[tasks[c].out.new_entries[k]]]

\* one turn of the loop over exe.map(process_chrom, tasks): the iterator
\* yields the results in the order of the tasks, each as soon as its task has
\* returned, and the loop body adds it to updated_genome and updated_entries
Merge ==
    /\ pc = "select"
    /\ ~sched.merged.done
    /\ sched.exc_per_chrom # <<>>
    /\ LET c == sched.merged.upto + 1
       IN  /\ sched.tasks[c].done
           /\ sched' = [sched EXCEPT !.merged =
                           [done    |-> c = NumChroms,
                            upto    |-> c,
                            genome  |-> [d \in 1..c |-> sched.tasks[d].out.genome[d]],
                            entries |-> MergedEntries(sched.tasks, c)]]
    /\ UNCHANGED <<pc, bed, genome, par, h, entries, nest_groups, num_excision, weights, sel,
                   partial_info, out, final_bed, twin, euch_intervals>>

\* final_bed = fail_safe_consolidation(updated_entries) of the parallel path
FailSafeMerged ==
    /\ pc = "select"
    /\ sched.merged.done
    /\ sched.seq.done
    /\ final_bed' = FailSafeConsolidation(sched.merged.entries)
    /\ pc' = "done"
    /\ UNCHANGED <<bed, genome, par, h, entries, nest_groups, num_excision, weights, sel,
                   partial_info, out, twin, sched, euch_intervals>>

NextSched ==
    \/ Classify \/ CountSched \/ SeqRun \/ Allocate
    \/ (\E c \in Chroms : ProcessChrom(c))
    \/ Merge \/ FailSafeMerged

SpecSched == InitSched /\ [][NextSched]_vars

\* the features of chromosome c in a set of features
OfChromosome(S, c) == {x \in S : h[x].chrom = c}

\* C8: the run with one worker and the run with a worker per chromosome
\* choose the same features for excision, and the same of them for partial
\* excision, on every chromosome.
C8_SameChoices ==
    sched.seq.done =>
        \A c \in Chroms :
            sched.tasks[c].done =>
                /\ OfChromosome(sched.seq.removals, c) = sched.tasks[c].removals
                /\ OfChromosome(sched.seq.partial, c) = sched.tasks[c].partial

\* ------------------------------------------------------------------------
\* The workers of the parallel path and the chromosomes they touch
\* ------------------------------------------------------------------------

\* a candidate, and a flank with its nested candidate at either end of a
\* chromosome, where the other flank is missing
IsoPool ==
    { <<Proto(N_TE1, "+", "NA", None, 1, 2)>>,
      <<Proto(N_TE1, "+", "NA", None, 1, 2), Proto(N_TE3_NESTED, "+", "NA", None, 0, 2)>>,
      <<Proto(N_TE3_NESTED, "+", "NA", None, 1, 2), Proto(N_TE1, "+", "NA", None, 0, 2)>> }

RECURSIVE IsoBedsUpTo(_)
IsoBedsUpTo(c) ==
    IF c = 0 THEN {<<>>}
    ELSE {b \o OnChrom(Layout(s, 0, Len(b)), c) :
             b \in IsoBedsUpTo(c - 1), s \in BlockSeqs(IsoPool, MaxSchedBlocks)}

InitIso ==
    /\ bed \in IsoBedsUpTo(NumChroms)
    /\ genome = GenomeOn(bed, Chroms)
    /\ par = DefaultPar
    /\ h = ParseBed(bed)
    /\ entries = [k \in 1..Len(bed) |-> k]
    /\ nest_groups = <<>>
    /\ num_excision = 0
    /\ weights = <<>>
    /\ sel = NoSel
    /\ partial_info = <<>>
    /\ out = NoOut
    /\ final_bed = <<>>
    /\ twin = NoTwin
    /\ euch_intervals = NoEuch
    /\ \E rng \in [0..NumChroms -> [1..MaxDraws -> 0..(DrawGrid - 1)]] :
          sched = [rng |-> rng, seq |-> NoRun, exc_per_chrom |-> <<>>,
                   tasks |-> [c \in Chroms |-> NoRun],
                   merged |-> NoMerged]
    /\ pc = "classify"

SpecIso == InitIso /\ [][NextSched]_vars

\* the Features in the arguments of the task of chromosome c: its list of
\* entries and the members of its nest groups
TaskFeatures(c) ==
    Range(EntriesByChrom(h, entries, c))
        \cup UNION {Range(nest_groups[g]) : g \in DOMAIN NestByChrom(h, nest_groups, c)}

\* a worker is handed, and returns, only Features of its own chromosome
OwnChromosomeOnly ==
    pc = "select" =>
        \A c \in Chroms :
            /\ \A x \in TaskFeatures(c) : h[x].chrom = c
            /\ sched.tasks[c].done =>
                  /\ DOMAIN sched.tasks[c].out.genome = {c}
                  /\ \A k \in 1..Len(sched.tasks[c].out.new_entries) :
                        sched.tasks[c].out.h[sched.tasks[c].out.new_entries[k]].chrom = c

\* no result is merged while a worker is still running
MergedAfterAll ==
    (pc = "select" /\ sched.merged.upto > 0) => \A c \in Chroms : sched.tasks[c].done

\* the entries of the tasks 1..c, chromosome after chromosome
RECURSIVE InChromosomeOrder(_)
InChromosomeOrder(c) ==
    IF c = 0 THEN <<>>
    ELSE InChromosomeOrder(c - 1)
         \o [k \in 1..Len(sched.tasks[c].out.new_entries) |->
                sched.tasks[c].out.h[sched.tasks[c].out.new_entries[k]]]

\* the merged result is that of the tasks in the order of the chromosomes,
\* in whatever order they returned
MergedInChromosomeOrder ==
    (pc = "select" /\ sched.merged.done) =>
        /\ sched.merged.entries = InChromosomeOrder(NumChroms)
        /\ sched.merged.genome = [c \in Chroms |-> sched.tasks[c].out.genome[c]]

\* C18: in the parallel path each worker reads and mutates only the
\* Features, nest groups and sequence of its own chromosome, a result is
\* merged only after every worker has completed, a completed worker's result
\* is not touched by the others, and the merged sequences and Feature list
\* are the same whatever the order in which the workers complete.
C18_WorkersIsolated ==
    /\ []OwnChromosomeOnly
    /\ []MergedAfterAll
    /\ []MergedInChromosomeOrder
    /\ [][\A c \in Chroms :
             (pc = "select" /\ sched.tasks[c].done) => sched'.tasks[c] = sched.tasks[c]]_vars

\* ------------------------------------------------------------------------
\* The allocation of the excision count to the chromosomes
\* ------------------------------------------------------------------------

MaxAllocBlocks == 3
MaxAllocCount == 4

\* a candidate and a record that is none
AllocPool ==
    { <<Proto(N_TE1, "+", "NA", None, 1, 2)>>,
      <<Proto(N_GENE1, "+", "NA", None, 1, 2)>> }

RECURSIVE AllocBedsUpTo(_)
AllocBedsUpTo(c) ==
    IF c = 0 THEN {<<>>}
    ELSE {b \o OnChrom(Layout(s, 0, Len(b)), c) :
             b \in AllocBedsUpTo(c - 1), s \in BlockSeqs(AllocPool, MaxAllocBlocks)}

InitAlloc ==
    /\ bed \in AllocBedsUpTo(NumChroms)
    /\ genome = GenomeOn(bed, Chroms)
    /\ par = DefaultPar
    /\ h = ParseBed(bed)
    /\ entries = [k \in 1..Len(bed) |-> k]
    /\ nest_groups = <<>>
    /\ num_excision = 0
    /\ weights = <<>>
    /\ sel = NoSel
    /\ partial_info = <<>>
    /\ out = NoOut
    /\ final_bed = <<>>
    /\ twin = NoTwin
    /\ euch_intervals = NoEuch
    /\ sched = [rng |-> <<>>, seq |-> NoRun, exc_per_chrom |-> <<>>,
                tasks |-> [c \in Chroms |-> NoRun],
                merged |-> NoMerged]
    /\ pc = "classify"

\* the count drawn by main()
CountAlloc ==
    /\ pc = "count"
    /\ num_excision' \in 0..MaxAllocCount
    /\ pc' = "select"
    /\ UNCHANGED <<bed, genome, par, h, entries, nest_groups, weights, sel, partial_info,
                   out, final_bed, twin, sched, euch_intervals>>

NextAlloc == Classify \/ CountAlloc \/ Allocate

SpecAlloc == InitAlloc /\ [][NextAlloc]_vars

\* the eligible candidates of chromosome c, and of all chromosomes
EligibleOn(c) == Cardinality({x \in InitialEligible : h[x].chrom = c})

\* C15: the targets of the chromosomes are non-negative, add up to the
\* global count whatever the eligible counts are (also when there is no
\* candidate at all), and each is the floor or the ceiling of
\* count * eligible_c / total_eligible.
C15_TargetsAddUp ==
    sched.exc_per_chrom # <<>> =>
        /\ \A c \in Chroms : sched.exc_per_chrom[c] >= 0
        /\ SumOver(sched.exc_per_chrom, Chroms) = num_excision
        /\ \A c \in Chroms :
              Cardinality(InitialEligible) > 0 =>
                 /\ sched.exc_per_chrom[c] * Cardinality(InitialEligible)
                       > num_excision * EligibleOn(c) - Cardinality(InitialEligible)
                 /\ sched.exc_per_chrom[c] * Cardinality(InitialEligible)
                       < num_excision * EligibleOn(c) + Cardinality(InitialEligible)

\* ------------------------------------------------------------------------
\* The Features before and after the rewrite
\* ------------------------------------------------------------------------

\* the nest groups of `groups` that simulate_excision consolidates
ConsolidatedGroups(groups, removals, pinfo) ==
    {g \in DOMAIN groups : CanConsolidate(h, groups, g, removals, pinfo)}

\* how often the input Feature x is to be in the output: not at all when it
\* is excised in full or a member of a consolidated group, once otherwise
ExpectedCopies(x, groups, removals, pinfo) ==
    IF \/ x \in removals \ DOMAIN pinfo
       \/ \E g \in ConsolidatedGroups(groups, removals, pinfo) : x \in Range(groups[g])
    THEN 0 ELSE 1

\* the single run: the list simulate_excision returned
ConservedInRun(o, groups, removals, pinfo) ==
    /\ \A x \in Range(entries) :
          Occurrences(o.new_entries, x) = ExpectedCopies(x, groups, removals, pinfo)
    /\ \A y \in Range(o.new_entries) \ Range(entries) :
          Occurrences(o.new_entries, y) = 1
    /\ Cardinality(Range(o.new_entries) \ Range(entries))
          = Cardinality(ConsolidatedGroups(groups, removals, pinfo))

\* the per-chromosome run: the lists of the tasks, and their merge
ConservedInTasks ==
    /\ \A x \in Range(entries) :
          SumOver([c \in Chroms |-> Occurrences(sched.tasks[c].out.new_entries, x)], Chroms)
             = ExpectedCopies(x, nest_groups, sched.tasks[h[x].chrom].removals,
                              PartialInfo(h, sched.tasks[h[x].chrom].partial))
    /\ \A c \in Chroms :
          LET o    == sched.tasks[c].out
              cons == ConsolidatedGroups(NestByChrom(h, nest_groups, c),
                                         sched.tasks[c].removals,
                                         PartialInfo(h, sched.tasks[c].partial))
          IN  /\ \A y \in Range(o.new_entries) \ Range(entries) :
                    Occurrences(o.new_entries, y) = 1
              /\ Cardinality(Range(o.new_entries) \ Range(entries)) = Cardinality(cons)
    /\ Len(sched.merged.entries)
          = SumOver([c \in Chroms |-> Len(sched.tasks[c].out.new_entries)], Chroms)

\* C21: in the single run and in the per-chromosome run, an input Feature
\* that is neither excised in full nor a member of a consolidated nest group
\* is in the output of simulate_excision exactly once, a Feature excised in
\* full or a member of a consolidated group is not in it, and the only other
\* records are one synthesized Feature per consolidated group.
C21_FeaturesConserved ==
    /\ (Rewritten /\ sched = NoSched)
          => ConservedInRun(out, nest_groups, sel.removals, partial_info)
    /\ (sched # NoSched /\ sched.seq.done)
          => ConservedInRun(sched.seq.out, nest_groups, sched.seq.removals,
                            PartialInfo(h, sched.seq.partial))
    /\ (sched # NoSched /\ sched.merged.done) => ConservedInTasks

\* ------------------------------------------------------------------------
\* The euchromatin intervals of main()
\* ------------------------------------------------------------------------

MaxEuchRecs == 3
MaxEuchStart == 4
MaxEuchLen == 2
MaxBuffer == 2

\* gene records anywhere on the chromosomes, and a record that is no gene
EuchRecs ==
    {[chrom |-> c, start |-> s, end |-> s + w, name |-> N_GENE1, strand |-> "+",
      tsd |-> "NA", tag |-> None, lineno |-> 0] :
        c \in Chroms, s \in 0..MaxEuchStart, w \in 1..MaxEuchLen}
    \cup {[chrom |-> 1, start |-> 0, end |-> 1, name |-> N_TE1, strand |-> "+",
           tsd |-> "NA", tag |-> None, lineno |-> 0]}

\* BED files of up to n such records, in any order, every line a record
RECURSIVE EuchBeds(_)
EuchBeds(n) ==
    IF n = 0 THEN {<<>>}
    ELSE LET shorter == EuchBeds(n - 1)
         IN  shorter \cup {Append(b, [r EXCEPT !.lineno = Len(b)]) :
                              b \in shorter, r \in EuchRecs}

\* main() up to the chromatin intervals (line 757), entries classified
InitEuch ==
    /\ bed \in EuchBeds(MaxEuchRecs)
    /\ genome = GenomeOn(bed, Chroms)
    /\ \E b \in 0..MaxBuffer : par = [DefaultPar EXCEPT !.euch_het_buffer = b]
    /\ h = ClassifyEntries(ParseBed(bed)).es
    /\ entries = [k \in 1..Len(bed) |-> k]
    /\ nest_groups = ClassifyEntries(ParseBed(bed)).groups
    /\ num_excision = 0
    /\ weights = <<>>
    /\ sel = NoSel
    /\ partial_info = <<>>
    /\ out = NoOut
    /\ final_bed = <<>>
    /\ twin = NoTwin
    /\ euch_intervals = NoEuch
    /\ sched = NoSched
    /\ pc = "euch"

\* euch_intervals = build_euchromatin_intervals(entries, args.euch_het_buffer),
\* in rate mode and with a buffer; None otherwise
Euchromatin ==
    /\ pc = "euch"
    /\ euch_intervals' =
          IF par.fix_ex = None /\ par.euch_het_buffer > 0
          THEN [given |-> TRUE,
                ivals |-> BuildEuchromatinIntervals(h, entries, par.euch_het_buffer)]
          ELSE NoEuch
    /\ pc' = "select"
    /\ UNCHANGED <<bed, genome, par, h, entries, nest_groups, num_excision, weights, sel,
                   partial_info, out, final_bed, twin, sched>>

NextEuch == Euchromatin

SpecEuch == InitEuch /\ [][NextEuch]_vars

\* the gene entries of chromosome c
GenesOn(c) == {x \in Range(entries) : IsGeneId(h[x].feature_id) /\ h[x].chrom = c}

\* the interval [max(0, start - buffer), end + buffer] of a gene entry
Buffered(x) ==
    <<Max2(0, h[x].start - par.euch_het_buffer), h[x].end + par.euch_het_buffer>>

\* the point q / 2 lies in the closed interval iv
HalfPointIn(q, iv) == 2 * iv[1] <= q /\ q <= 2 * iv[2]

\* C19: build_euchromatin_intervals returns, for each chromosome with a gene
\* Feature, a list of intervals in which every interval starts strictly after
\* the previous one ends, and whose union is the union of the intervals
\* [max(0, start - buffer), end + buffer] of the chromosome's gene Features.
C19_IntervalsMerged ==
    (pc = "select" /\ euch_intervals.given) =>
        /\ DOMAIN euch_intervals.ivals = {c \in Chroms : GenesOn(c) # {}}
        /\ \A c \in DOMAIN euch_intervals.ivals :
              LET l == euch_intervals.ivals[c]
              IN  /\ Len(l) >= 1
                  /\ \A k \in 1..Len(l) : l[k][1] <= l[k][2]
                  /\ \A k \in 1..(Len(l) - 1) : l[k][2] < l[k + 1][1]
                  /\ \A q \in 0..(2 * (MaxEuchStart + MaxEuchLen + MaxBuffer) + 2) :
                        (\E k \in 1..Len(l) : HalfPointIn(q, l[k]))
                            <=> (\E x \in GenesOn(c) : HalfPointIn(q, Buffered(x)))

\* three genes of a chromosome are unioned into one interval: one is clamped
\* at 0, one lies inside the interval of an earlier one, and one touches the
\* interval of another
C19_Witness_Unioned ==
    /\ pc = "select"
    /\ euch_intervals.given
    /\ \E c \in DOMAIN euch_intervals.ivals :
          /\ Cardinality(GenesOn(c)) = 3
          /\ Len(euch_intervals.ivals[c]) = 1
          /\ \E x \in GenesOn(c) : h[x].start < par.euch_het_buffer
          /\ \E x, y \in GenesOn(c) :
                /\ x # y
                /\ Buffered(x)[2] = Buffered(y)[1]
          /\ \E x, y \in GenesOn(c) :
                /\ x < y
                /\ Buffered(y)[1] >= Buffered(x)[1]
                /\ Buffered(y)[2] < Buffered(x)[2]

====
